---- MODULE Spec2Model ----
(***************************************************************************)
(* webstore: the REST handlers of webstore/web.py over a store of tables.  *)
(* The store is the set of tables of each database; every handler is one   *)
(* action that takes a request, changes the store as the handler's code    *)
(* does and leaves the HTTP response and the engine calls it made.         *)
(***************************************************************************)
EXTENDS Integers, Sequences, FiniteSets, TLC

\* ---------------------------------------------------------------- bounds
MaxRows == 2
MaxBody == 2

Databases == {"d1"}
Tables == {"t1"}
Columns == {"a", "b"}
\* The values a client can give each column.
Values == [a |-> {0, 1}, b |-> {0}]

\* The value of a column a row was never given (nullable, no default).
NULL == -1
\* The system identifier column.
ID == "__id__"

\* ------------------------------------------------------------ the store
NoTable == [exists |-> FALSE, cols |-> {}, rows |-> <<>>]

EmptyStore == [d \in Databases |-> [t \in Tables |-> NoTable]]

\* `table in db`
table_in(db, table) == db[table].exists

\* A stored row widened to the column set cols.
Widen(row, cols) ==
  [c \in cols \cup {ID} |-> IF c \in DOMAIN row THEN row[c] ELSE NULL]

\* TableHandle.add_row: extend the schema by the row's new columns, then
\* insert the row under the next identifier.  The first insert creates the
\* table.
add_row(t, row) ==
  LET cols == t.cols \cup DOMAIN row
      new == [c \in cols \cup {ID} |->
                IF c = ID THEN Len(t.rows) + 1
                ELSE IF c \in DOMAIN row THEN row[c] ELSE NULL]
  IN [exists |-> TRUE,
      cols |-> cols,
      rows |-> Append([i \in 1..Len(t.rows) |-> Widen(t.rows[i], cols)], new)]

\* The stored rows a row matches on the unique columns.
Matches(t, unique, row) ==
  {i \in 1..Len(t.rows) :
     \A u \in unique : /\ u \in DOMAIN row
                      /\ u \in t.cols
                      /\ t.rows[i][u] = row[u]}

\* TableHandle.update_row: FALSE when unique is empty or nothing matches.
update_row_hit(t, unique, row) ==
  unique # {} /\ Matches(t, unique, row) # {}

\* TableHandle.update_row, the table after a hit: the matching rows take the
\* row's fields, the schema widened by its new columns.
update_row(t, unique, row) ==
  LET cols == t.cols \cup DOMAIN row
      hit == Matches(t, unique, row)
  IN [exists |-> TRUE,
      cols |-> cols,
      rows |-> [i \in 1..Len(t.rows) |->
                  [c \in cols \cup {ID} |->
                     IF i \in hit /\ c \in DOMAIN row THEN row[c]
                     ELSE IF c \in DOMAIN t.rows[i] THEN t.rows[i][c]
                     ELSE NULL]]]

\* TableHandle.drop
drop(t) == NoTable

\* ----------------------------------------------------- requests, responses
EmptyRow == [c \in {} |-> 0]

\* The rows a client can send: a value for each column of a subset.
BodyRows ==
  UNION {{r \in [S -> {0, 1}] : \A c \in S : r[c] \in Values[c]} :
           S \in SUBSET Columns}

\* Request bodies: a sequence of rows, a single row mapping, or bytes that
\* do not parse as the declared format.
ListBodies ==
  UNION {{[kind |-> "list", obj |-> EmptyRow, items |-> rs] :
            rs \in [1..n -> BodyRows]} : n \in 0..MaxBody}
DictBodies == {[kind |-> "dict", obj |-> r, items |-> <<>>] : r \in BodyRows}
Malformed == [kind |-> "malformed", obj |-> EmptyRow, items |-> <<>>]
NoBody == [kind |-> "list", obj |-> EmptyRow, items |-> <<>>]
\* Bodies whose decoding fails after the rows of items have been read.
MalformedBodies ==
  UNION {{[kind |-> "malformed", obj |-> EmptyRow, items |-> rs] :
            rs \in [1..n -> BodyRows]} : n \in 0..(MaxBody - 1)}
Bodies == ListBodies \cup DictBodies \cup MalformedBodies

\* formats.read_request: the rows of a body; a single mapping is one row.
\* The reader is lazy: of a malformed body it yields the rows before the
\* failure.
read_request(body) ==
  IF body.kind = "dict" THEN <<body.obj>> ELSE body.items

NoMessage == [text |-> "", arg |-> <<>>]
NoResponse ==
  [code |-> 0, state |-> "", message |-> NoMessage, url |-> <<>>, rows |-> <<>>]

\* formats.render_message: the status envelope {message, state, url}.
render_message(text, arg, state, code, url) ==
  [code |-> code, state |-> state, message |-> [text |-> text, arg |-> arg],
   url |-> url, rows |-> <<>>]

\* formats.render_table: a result set.
render_table(rows) ==
  [code |-> 200, state |-> "", message |-> NoMessage, url |-> <<>>,
   rows |-> rows]

\* An exception no handler catches: the framework's generic server fault.
server_fault(exc) ==
  [code |-> 500, state |-> "", message |-> [text |-> exc, arg |-> <<>>],
   url |-> <<>>, rows |-> <<>>]

\* url_for('read', database=database, table=table)
url_for(database, table) == <<"db", database, table>>

\* What a handler leaves: the store, the response, the engine calls made.
Outcome(st, resp, made) == [store |-> st, response |-> resp, calls |-> made]

\* _get_table's WebstoreException
no_such_table(st, table) ==
  Outcome(st, render_message("No such table: ", <<table>>, "error", 404, <<>>),
          {})

\* read_request's failure on a body that does not parse
malformed_input(st) ==
  Outcome(st, render_message("Malformed input", <<>>, "error", 400, <<>>), {})

\* ------------------------------------------------------------- handlers
RECURSIVE create_rows_all(_, _)
\* create_named's loop without its test for an empty row.
create_rows_all(t, rows) ==
  IF rows = <<>> THEN t
  ELSE create_rows_all(add_row(t, Head(rows)), Tail(rows))

RECURSIVE create_rows(_, _)
\* create_named's loop: add every row that has a field.
create_rows(t, rows) ==
  IF rows = <<>> THEN t
  ELSE create_rows(IF DOMAIN Head(rows) # {} THEN add_row(t, Head(rows)) ELSE t,
                   Tail(rows))

\* The rows of a body that have a field.
RECURSIVE NonEmpty(_)
NonEmpty(rows) ==
  IF rows = <<>> THEN <<>>
  ELSE IF DOMAIN Head(rows) # {} THEN <<Head(rows)>> \o NonEmpty(Tail(rows))
  ELSE NonEmpty(Tail(rows))

\* create_named on a table that exists
already_exists(st, database, table) ==
  Outcome(st, render_message("Table already exists: ", <<table>>, "error",
                             409, url_for(database, table)), {})

\* create_named with a commit after every add_row.
create_table_commit_each(st, database, table, body) ==
  LET made == IF NonEmpty(read_request(body)) # <<>>
              THEN {"add_row", "commit"} ELSE {}
      work == [st EXCEPT ![database][table] =
                 create_rows(st[database][table], read_request(body))]
  IN IF body.kind = "malformed"
     THEN [malformed_input(work) EXCEPT !.calls = made]
     ELSE Outcome(work,
                  render_message("Successfully created: ", <<table>>,
                                 "success", 201, url_for(database, table)),
                  made \cup {"commit"})

\* create_named on a table that does not exist: add the rows, commit.  When
\* the reader fails the rows added so far are not committed.
create_table(st, database, table, body) ==
  LET made == IF NonEmpty(read_request(body)) # <<>> THEN {"add_row"} ELSE {}
  IN IF body.kind = "malformed"
     THEN [malformed_input(st) EXCEPT !.calls = made]
     ELSE Outcome([st EXCEPT ![database][table] =
                     create_rows(st[database][table], read_request(body))],
                  render_message("Successfully created: ", <<table>>,
                                 "success", 201, url_for(database, table)),
                  made \cup {"commit"})

\* create_named without its test for an existing table.
create_named_overwrite(st, database, table, body) ==
  create_table(st, database, table, body)

create_named(st, database, table, body) ==
  IF table_in(st[database], table) THEN already_exists(st, database, table)
  ELSE create_table(st, database, table, body)

\* create: the table name is the query argument `table`.
create(st, database, targ, body) ==
  IF targ = <<>>
  THEN Outcome(st, render_message("Missing argument: table", <<>>, "error",
                                  400, <<>>), {})
  ELSE create_named(st, database, targ[1], body)

RECURSIVE update_rows_add(_, _, _)
\* update's loop without its test of update_row's result.
update_rows_add(t, unique, rows) ==
  IF rows = <<>> THEN t
  ELSE update_rows_add(IF DOMAIN Head(rows) = {} THEN t
                       ELSE add_row(t, Head(rows)),
                       unique, Tail(rows))

RECURSIVE update_rows_noskip(_, _, _)
\* update's loop without its test for an empty row.
update_rows_noskip(t, unique, rows) ==
  IF rows = <<>> THEN t
  ELSE LET row == Head(rows)
           next == IF update_row_hit(t, unique, row)
                   THEN update_row(t, unique, row)
                   ELSE add_row(t, row)
       IN update_rows_noskip(next, unique, Tail(rows))

RECURSIVE update_rows(_, _, _)
\* update's loop: update the rows a row matches, add the row otherwise.
update_rows(t, unique, rows) ==
  IF rows = <<>> THEN t
  ELSE LET row == Head(rows)
           next == IF DOMAIN row = {} THEN t
                   ELSE IF update_row_hit(t, unique, row)
                        THEN update_row(t, unique, row)
                        ELSE add_row(t, row)
       IN update_rows(next, unique, Tail(rows))

\* update that replaces the table by the rows of the body.
update_table_replace(st, database, table, unique, body) ==
  LET made == IF NonEmpty(read_request(body)) # <<>> THEN {"add_row"} ELSE {}
  IN IF body.kind = "malformed"
     THEN [malformed_input(st) EXCEPT !.calls = made]
     ELSE Outcome([st EXCEPT ![database][table] =
                     IF NonEmpty(read_request(body)) = <<>> THEN @
                     ELSE create_rows(NoTable, read_request(body))],
                  render_message("Table updated: ", <<table>>, "success", 201,
                                 url_for(database, table)),
                  made \cup {"drop", "commit"})

\* update on a table that exists: update or add the rows, commit.  When the
\* reader fails the rows written so far are not committed.
update_table(st, database, table, unique, body) ==
  LET t == update_rows(st[database][table], unique, read_request(body))
      made == (IF NonEmpty(read_request(body)) # <<>>
               THEN {"update_row"} ELSE {})
                \cup (IF Len(t.rows) > Len(st[database][table].rows)
                      THEN {"add_row"} ELSE {})
  IN IF body.kind = "malformed"
     THEN [malformed_input(st) EXCEPT !.calls = made]
     ELSE Outcome([st EXCEPT ![database][table] = t],
                  render_message("Table updated: ", <<table>>, "success", 201,
                                 url_for(database, table)),
                  made \cup {"commit"})

\* update without _get_table's test.
update_unchecked(st, database, table, unique, body) ==
  update_table(st, database, table, unique, body)

update(st, database, table, unique, body) ==
  IF ~ table_in(st[database], table) THEN no_such_table(st, table)
  ELSE update_table(st, database, table, unique, body)

\* delete without its drop.
delete_nodrop(st, database, table) ==
  IF ~ table_in(st[database], table) THEN no_such_table(st, table)
  ELSE Outcome(st, render_message("Table dropped: ", <<table>>, "success", 410,
                                  <<>>),
               {"commit"})

delete(st, database, table) ==
  IF ~ table_in(st[database], table) THEN no_such_table(st, table)
  ELSE Outcome([st EXCEPT ![database][table] = drop(st[database][table])],
               render_message("Table dropped: ", <<table>>, "success", 410,
                              <<>>),
               {"drop", "commit"})

\* ------------------------------------------------------ the read handler
\* A query-string value is a sequence of characters; a multi-valued
\* argument is the sequence of its values (empty: the argument is absent).
DigitChar == <<"0", "1", "2", "3", "4", "5", "6", "7", "8", "9">>

Digits == {DigitChar[i] : i \in 1..10}

DigitVal(c) == (CHOOSE i \in 1..10 : DigitChar[i] = c) - 1

\* The digits of an integer literal: the literal without its sign.
Unsigned(lit) ==
  IF lit # <<>> /\ lit[1] \in {"-", "+"} THEN Tail(lit) ELSE lit

\* int(lit) raises ValueError
ValueError(lit) ==
  \/ Unsigned(lit) = <<>>
  \/ \E i \in 1..Len(Unsigned(lit)) : Unsigned(lit)[i] \notin Digits

RECURSIVE Decimal(_)
Decimal(ds) ==
  IF ds = <<>> THEN 0
  ELSE 10 * Decimal(SubSeq(ds, 1, Len(ds) - 1)) + DigitVal(ds[Len(ds)])

\* int(lit)
int(lit) ==
  IF lit # <<>> /\ lit[1] = "-" THEN 0 - Decimal(Unsigned(lit))
  ELSE Decimal(Unsigned(lit))

\* params.pop(name, None) and its truth value: None and '' are false.
Given(arg) == arg # <<>> /\ arg[1] # <<>>

\* A _sort value is a sequence of words and ':' separators.
HasSeparator(sort) == \E i \in 1..Len(sort) : sort[i] = ":"

FirstSeparator(sort) ==
  CHOOSE i \in 1..Len(sort) :
    sort[i] = ":" /\ \A j \in 1..(i - 1) : sort[j] # ":"

\* sort.split(':', 1)
SplitOrder(sort) == SubSeq(sort, 1, FirstSeparator(sort) - 1)
SplitColumn(sort) == SubSeq(sort, FirstSeparator(sort) + 1, Len(sort))

\* str.lower() of a word
lower(w) ==
  CASE w \in {"ASC", "Asc"} -> "asc"
    [] w \in {"DESC", "Desc"} -> "desc"
    [] w = "UP" -> "up"
    [] OTHER -> w

\* The lookup with asc under both keys.
OrderOf_ascending(order) ==
  LET low == [i \in 1..Len(order) |-> lower(order[i])]
  IN IF low \in {<<"asc">>, <<"desc">>} THEN "asc()" ELSE "'asc'"

\* {'asc': asc, 'desc': desc}.get(order.lower(), 'asc'): the function asc,
\* the function desc, or the string 'asc'.
OrderOf(order) ==
  LET low == [i \in 1..Len(order) |-> lower(order[i])]
  IN IF low = <<"asc">> THEN "asc()"
     ELSE IF low = <<"desc">> THEN "desc()"
     ELSE "'asc'"

RECURSIVE parse_sorts(_, _)
\* read's loop over the _sort values, in order; acc is the list so far.
\* A value without ':' ends the request with 400; calling the string 'asc'
\* raises TypeError.
parse_sorts(values, acc) ==
  IF values = <<>> THEN [status |-> "ok", sorts |-> acc]
  ELSE LET sort == Head(values) IN
       IF ~ HasSeparator(sort) THEN [status |-> "format", sorts |-> acc]
       ELSE LET order == OrderOf(SplitOrder(sort)) IN
            IF order = "'asc'" THEN [status |-> "TypeError", sorts |-> acc]
            ELSE parse_sorts(Tail(values),
                             Append(acc, [order |-> order,
                                          column |-> SplitColumn(sort)]))

\* TableHandle.args_to_clause raises KeyError: a filter on a column the
\* table does not have.
UnknownFilters(t, filter) == DOMAIN filter \ (t.cols \cup {ID})

\* The columns of the order_by list the table does not have.
UnknownSorts(t, sorts) ==
  {i \in 1..Len(sorts) :
     ~ (Len(sorts[i].column) = 1 /\ sorts[i].column[1] \in t.cols \cup {ID})}

\* The engine: rows that satisfy the clause.
RECURSIVE Select(_, _)
Select(rows, filter) ==
  IF rows = <<>> THEN <<>>
  ELSE IF \A c \in DOMAIN filter : Head(rows)[c] = filter[c]
       THEN <<Head(rows)>> \o Select(Tail(rows), filter)
       ELSE Select(Tail(rows), filter)

\* The engine: r1 comes before r2 under the order_by list; rows equal on
\* every sort column keep their insertion order.
RECURSIVE Before(_, _, _)
Before(r1, r2, sorts) ==
  IF sorts = <<>> THEN r1[ID] < r2[ID]
  ELSE LET c == Head(sorts).column[1] IN
       IF r1[c] = r2[c] THEN Before(r1, r2, Tail(sorts))
       ELSE IF Head(sorts).order = "asc()" THEN r1[c] < r2[c]
       ELSE r1[c] > r2[c]

\* The engine: ORDER BY.
OrderBy(rows, sorts) ==
  LET pos(i) == 1 + Cardinality({j \in 1..Len(rows) :
                                   Before(rows[j], rows[i], sorts)})
  IN [p \in 1..Len(rows) |-> rows[CHOOSE i \in 1..Len(rows) : pos(i) = p]]

\* The engine: LIMIT and OFFSET; a negative limit is no limit, a negative
\* offset is no offset.
Window(rows, haslimit, limit, hasoffset, offset) ==
  LET skip == IF hasoffset /\ offset > 0 THEN offset ELSE 0
      rest == SubSeq(rows, skip + 1, Len(rows))
  IN IF haslimit /\ limit >= 0 /\ limit < Len(rest)
     THEN SubSeq(rest, 1, limit)
     ELSE rest

\* _table.bind.execute(statement)
execute(t, filter, haslimit, limit, hasoffset, offset, sorts) ==
  Window(OrderBy(Select(t.rows, filter), sorts),
         haslimit, limit, hasoffset, offset)

\* The arguments of select() with _offset passed as the limit and _limit as
\* the offset.
pagination_swapped(params) ==
  LET haslimit == Given(params.limit)
      hasoffset == Given(params.offset)
  IN IF haslimit /\ ValueError(params.limit[1])
     THEN [status |-> "ValueError", literal |-> params.limit[1],
           haslimit |-> FALSE, limit |-> 0, hasoffset |-> FALSE, offset |-> 0]
     ELSE IF hasoffset /\ ValueError(params.offset[1])
     THEN [status |-> "ValueError", literal |-> params.offset[1],
           haslimit |-> FALSE, limit |-> 0, hasoffset |-> FALSE, offset |-> 0]
     ELSE [status |-> "ok", literal |-> <<>>,
           haslimit |-> hasoffset,
           limit |-> IF hasoffset THEN int(params.offset[1]) ELSE 0,
           hasoffset |-> haslimit,
           offset |-> IF haslimit THEN int(params.limit[1]) ELSE 0]

\* The arguments of select() with int(offset) evaluated before int(limit).
pagination_offset_first(params) ==
  LET haslimit == Given(params.limit)
      hasoffset == Given(params.offset)
  IN IF hasoffset /\ ValueError(params.offset[1])
     THEN [status |-> "ValueError", literal |-> params.offset[1],
           haslimit |-> FALSE, limit |-> 0, hasoffset |-> FALSE, offset |-> 0]
     ELSE IF haslimit /\ ValueError(params.limit[1])
     THEN [status |-> "ValueError", literal |-> params.limit[1],
           haslimit |-> FALSE, limit |-> 0, hasoffset |-> FALSE, offset |-> 0]
     ELSE [status |-> "ok", literal |-> <<>>,
           haslimit |-> haslimit,
           limit |-> IF haslimit THEN int(params.limit[1]) ELSE 0,
           hasoffset |-> hasoffset,
           offset |-> IF hasoffset THEN int(params.offset[1]) ELSE 0]

\* The limit and offset arguments of select(), evaluated in that order:
\* int(limit) if limit else None, int(offset) if offset else None.
pagination(params) ==
  LET haslimit == Given(params.limit)
      hasoffset == Given(params.offset)
  IN IF haslimit /\ ValueError(params.limit[1])
     THEN [status |-> "ValueError", literal |-> params.limit[1],
           haslimit |-> FALSE, limit |-> 0, hasoffset |-> FALSE, offset |-> 0]
     ELSE IF hasoffset /\ ValueError(params.offset[1])
     THEN [status |-> "ValueError", literal |-> params.offset[1],
           haslimit |-> FALSE, limit |-> 0, hasoffset |-> FALSE, offset |-> 0]
     ELSE [status |-> "ok", literal |-> <<>>,
           haslimit |-> haslimit,
           limit |-> IF haslimit THEN int(params.limit[1]) ELSE 0,
           hasoffset |-> hasoffset,
           offset |-> IF hasoffset THEN int(params.offset[1]) ELSE 0]

\* read on a table that exists
read_table(st, database, table, params) ==
  LET t == st[database][table]
      parsed == parse_sorts(params.sort, <<>>)
      bad == UnknownFilters(t, params.filter)
      page == pagination(params)
  IN
  IF parsed.status = "format"
  THEN Outcome(st, render_message("Invalid sorting format, use: order:column",
                                  <<>>, "error", 400, <<>>), {})
  ELSE IF parsed.status = "TypeError"
  THEN Outcome(st, server_fault("TypeError"), {})
  ELSE IF bad # {}
  THEN Outcome(st, render_message("Invalid filter: ",
                                  <<CHOOSE c \in bad : TRUE>>,
                                  "error", 400, <<>>), {})
  ELSE IF page.status = "ValueError"
  THEN Outcome(st, render_message("Invalid value: ", page.literal,
                                  "error", 400, <<>>), {})
  ELSE IF UnknownSorts(t, parsed.sorts) # {}
  THEN Outcome(st, render_message("Invalid query: ",
                  parsed.sorts[CHOOSE i \in UnknownSorts(t, parsed.sorts) :
                                 TRUE].column,
                  "error", 400, <<>>), {"execute", "OperationalError"})
  ELSE Outcome(st,
               render_table(execute(t, params.filter, page.haslimit,
                                    page.limit, page.hasoffset, page.offset,
                                    parsed.sorts)),
               {"execute"})

\* read with a table handle that is created when the table is missing.
read_autocreate(st, database, table, params) ==
  IF ~ table_in(st[database], table)
  THEN Outcome([st EXCEPT ![database][table] =
                            [exists |-> TRUE, cols |-> {}, rows |-> <<>>]],
               render_table(<<>>), {"execute"})
  ELSE read_table(st, database, table, params)

\* read with the _sort values parsed before _get_table's test.
read_parse_first(st, database, table, params) ==
  IF parse_sorts(params.sort, <<>>).status = "format"
  THEN Outcome(st, render_message("Invalid sorting format, use: order:column",
                                  <<>>, "error", 400, <<>>), {})
  ELSE IF ~ table_in(st[database], table) THEN no_such_table(st, table)
  ELSE read_table(st, database, table, params)

read(st, database, table, params) ==
  IF ~ table_in(st[database], table) THEN no_such_table(st, table)
  ELSE read_table(st, database, table, params)

\* ------------------------------------------- the sql and index handlers
\* A raw statement: a selection of a table's rows, the drop of a table, or
\* text the engine cannot parse.
NoStatement == [verb |-> "", table |-> ""]
Statements ==
  {[verb |-> "select", table |-> t] : t \in Tables}
  \cup {[verb |-> "drop", table |-> t] : t \in Tables}
  \cup {[verb |-> "bogus", table |-> ""]}

ContentTypes == {"text/sql", "application/json", "text/csv"}

\* db.engine.execute(request.data) raises OperationalError: the statement
\* does not parse or names a table the database does not have.
OperationalError(db, stmt) ==
  stmt.verb = "bogus" \/ ~ table_in(db, stmt.table)

\* sql after its test of the content type: the statement is executed and its
\* result set rendered.  No handler catches the engine's error.  The result
\* of a statement that returns no rows either renders as an empty table or
\* raises when it is read (closed tells which).
sql_execute(st, database, stmt, closed) ==
  IF OperationalError(st[database], stmt)
  THEN Outcome(st, server_fault("OperationalError"),
               {"execute", "OperationalError"})
  ELSE IF stmt.verb = "select"
  THEN Outcome(st, render_table(st[database][stmt.table].rows), {"execute"})
  ELSE Outcome([st EXCEPT ![database][stmt.table] = drop(@)],
               IF closed THEN server_fault("ResourceClosedError")
               ELSE render_table(<<>>),
               {"execute"})

\* sql without its test of the content type.
sql_any_type(st, database, ctype, stmt, closed) ==
  sql_execute(st, database, stmt, closed)

sql(st, database, ctype, stmt, closed) ==
  IF ctype # "text/sql"
  THEN Outcome(st, render_message("Only text/sql content is supported", <<>>,
                                  "error", 400, <<>>), {})
  ELSE sql_execute(st, database, stmt, closed)

\* db.engine.table_names(), in some order.
table_names(db) ==
  LET names == {t \in DOMAIN db : table_in(db, t)}
  IN CHOOSE s \in [1..Cardinality(names) -> names] :
       \A i, j \in 1..Cardinality(names) : i # j => s[i] # s[j]

\* index: the list of the tables of a database.
index(st, database) ==
  LET names == table_names(st[database])
  IN Outcome(st,
             render_table([i \in 1..Len(names) |->
                             [name |-> names[i],
                              url |-> url_for(database, names[i])]]),
             {})

\* -------------------------------------------------------- the requests
NoParams == [limit |-> <<>>, offset |-> <<>>, sort |-> <<>>,
             filter |-> EmptyRow]

NoRequest ==
  [op |-> "", database |-> "", table |-> "", targ |-> <<>>, body |-> NoBody,
   unique |-> {}, params |-> NoParams, ctype |-> "",
   statement |-> NoStatement]

\* Values of _limit and _offset: absent, empty, integers, not integers.
LimitArgs == {<<>>, <<<<>>>>, <<<<"1">>>>, <<<<"-", "1">>>>, <<<<"B">>>>}
OffsetArgs == {<<>>, <<<<"1">>>>, <<<<"X">>>>}

SortValues ==
  {<<"asc", ":", "a">>, <<"desc", ":", "a">>, <<"DESC", ":", "b">>,
   <<"up", ":", "a">>, <<"theotherway">>, <<"asc", ":", "zz">>}

SortArgs ==
  {<<>>} \cup {<<s>> : s \in SortValues}
  \cup {<<s1, s2>> : s1 \in {<<"desc", ":", "a">>, <<"up", ":", "a">>},
                     s2 \in {<<"asc", ":", "b">>, <<"theotherway">>}}

FilterArgs ==
  {EmptyRow, [c \in {"a"} |-> 0], [c \in {"b"} |-> 0], [c \in {"zz"} |-> 0]}

ParamSets ==
  [limit : LimitArgs, offset : OffsetArgs, sort : SortArgs,
   filter : FilterArgs]

UniqueArgs == SUBSET Columns

\* store: the tables of each database.  request, response, calls: the request
\* being answered, its response and the engine calls its handler made.
\* dropped: the tables dropped and not created again since.
\* inflight: the create requests that worker threads answer concurrently,
\* each with its position in create_named.
VARIABLES store, request, response, calls, dropped, inflight

vars == <<store, request, response, calls, dropped, inflight>>

Workers == {"w1", "w2"}

NoFlight == [pc |-> "idle", body |-> NoBody, code |-> 0]

Init ==
  /\ store = EmptyStore
  /\ request = NoRequest
  /\ response = NoResponse
  /\ calls = {}
  /\ dropped = {}
  /\ inflight = [w \in Workers |-> NoFlight]

\* A table no larger than the model's bound.
Bounded(st) ==
  \A d \in Databases, t \in Tables : Len(st[d][t].rows) <= MaxRows

\* The router dispatches a request to its handler, which runs to its end.
Handle(req, out) ==
  /\ request = NoRequest
  /\ Bounded(out.store)
  /\ store' = out.store
  /\ request' = req
  /\ response' = out.response
  /\ calls' = out.calls
  /\ dropped' =
       {k \in Databases \X Tables :
          \/ table_in(store[k[1]], k[2]) /\ ~ table_in(out.store[k[1]], k[2])
          \/ k \in dropped /\ ~ table_in(out.store[k[1]], k[2])}
  /\ UNCHANGED inflight

Create ==
  \E d \in Databases, targ \in {<<>>} \cup {<<t>> : t \in Tables},
     body \in Bodies :
    Handle([NoRequest EXCEPT !.op = "create", !.database = d, !.targ = targ,
                             !.body = body],
           create(store, d, targ, body))

CreateNamed ==
  \E d \in Databases, t \in Tables, body \in Bodies :
    Handle([NoRequest EXCEPT !.op = "create_named", !.database = d,
                             !.table = t, !.body = body],
           create_named(store, d, t, body))

Read ==
  \E d \in Databases, t \in Tables, params \in ParamSets :
    Handle([NoRequest EXCEPT !.op = "read", !.database = d, !.table = t,
                             !.params = params],
           read(store, d, t, params))

Update ==
  \E d \in Databases, t \in Tables, unique \in UniqueArgs, body \in Bodies :
    Handle([NoRequest EXCEPT !.op = "update", !.database = d, !.table = t,
                             !.unique = unique, !.body = body],
           update(store, d, t, unique, body))

Delete ==
  \E d \in Databases, t \in Tables :
    Handle([NoRequest EXCEPT !.op = "delete", !.database = d, !.table = t],
           delete(store, d, t))

Sql ==
  \E d \in Databases, ctype \in ContentTypes, stmt \in Statements,
     closed \in BOOLEAN :
    Handle([NoRequest EXCEPT !.op = "sql", !.database = d, !.ctype = ctype,
                             !.statement = stmt],
           sql(store, d, ctype, stmt, closed))

Index ==
  \E d \in Databases :
    Handle([NoRequest EXCEPT !.op = "index", !.database = d],
           index(store, d))

\* The response is sent and the request context ends.
Respond ==
  /\ request # NoRequest
  /\ request' = NoRequest
  /\ response' = NoResponse
  /\ calls' = {}
  /\ UNCHANGED <<store, dropped, inflight>>

Next ==
  Create \/ CreateNamed \/ Read \/ Update \/ Delete \/ Sql \/ Index \/ Respond

Spec == Init /\ [][Next]_vars

\* ------------------------------------------------- the fixture table
\* The largest _limit and _offset of one digit tried on the fixture.
MaxWindow == 7

\* CSV_FIXTURE: date, temperature, place.  A date is the number its digits
\* spell, a temperature is its number.
CSV_FIXTURE ==
  <<[date |-> 20110101, temperature |-> 1, place |-> "Galway"],
    [date |-> 20110102, temperature |-> 0 - 1, place |-> "Galway"],
    [date |-> 20110103, temperature |-> 0, place |-> "Galway"],
    [date |-> 20110101, temperature |-> 6, place |-> "Berkeley"],
    [date |-> 20110102, temperature |-> 8, place |-> "Berkeley"],
    [date |-> 20110103, temperature |-> 5, place |-> "Berkeley"]>>

\* make_fixtures: POST /db/fixtures?table=csv on a new database.
FixtureStore ==
  [d \in {"fixtures"} |->
     [t \in {"csv"} |-> create_rows(NoTable, CSV_FIXTURE)]]

WindowArgs ==
  {<<>>, <<<<"1", "0">>>>} \cup {<<<<DigitChar[n + 1]>>>> : n \in 0..MaxWindow}

FixtureSorts ==
  {<<>>} \cup {<<<<o, ":", c>>>> : o \in {"asc", "desc", "DESC"},
                                  c \in {"temperature", "date"}}
  \cup {<<<<"desc", ":", "date">>, <<"desc", ":", "temperature">>>>}

FixtureFilters ==
  {EmptyRow, [c \in {"place"} |-> "Galway"], [c \in {"place"} |-> "Berkeley"],
   [c \in {"date"} |-> 20110101]}

FixtureParams ==
  [limit : WindowArgs, offset : WindowArgs, sort : FixtureSorts,
   filter : FixtureFilters]

InitFixture ==
  /\ store = FixtureStore
  /\ request = NoRequest
  /\ response = NoResponse
  /\ calls = {}
  /\ dropped = {}
  /\ inflight = [w \in Workers |-> NoFlight]

\* GET /db/fixtures/csv with query parameters.
ReadFixture ==
  \E params \in FixtureParams :
    LET out == read(store, "fixtures", "csv", params)
    IN /\ request = NoRequest
       /\ store' = out.store
       /\ request' = [NoRequest EXCEPT !.op = "read", !.database = "fixtures",
                                       !.table = "csv", !.params = params]
       /\ response' = out.response
       /\ calls' = out.calls
       /\ UNCHANGED <<dropped, inflight>>

NextFixture == ReadFixture \/ Respond

SpecFixture == InitFixture /\ [][NextFixture]_vars

\* ------------------------------------------- concurrent create requests
\* Two create requests for one table name, each answered by its own worker.
\* A worker's steps are create_named's test of `table in db` and, when the
\* table is absent, the writes with their commit; the engine runs one write
\* transaction at a time.
ConcDatabase == "d1"
ConcTable == "t1"

\* Bodies that decode and have a row with a field.
ConcBodies ==
  {b \in ListBodies \cup DictBodies : NonEmpty(read_request(b)) # <<>>}

\* POST /db/d1/t1 reaches a worker.
Arrive(w) ==
  /\ inflight[w].pc = "idle"
  /\ \E body \in ConcBodies :
       inflight' = [inflight EXCEPT ![w] = [pc |-> "check", body |-> body,
                                            code |-> 0]]
  /\ UNCHANGED <<store, request, response, calls, dropped>>

\* if table in db: return 409
Check(w) ==
  /\ inflight[w].pc = "check"
  /\ inflight' =
       [inflight EXCEPT ![w] =
          IF table_in(store[ConcDatabase], ConcTable)
          THEN [@ EXCEPT !.pc = "done",
                         !.code = already_exists(store, ConcDatabase,
                                                 ConcTable).response.code]
          ELSE [@ EXCEPT !.pc = "write"]]
  /\ UNCHANGED <<store, request, response, calls, dropped>>

\* _table = db[table]; the add_row loop; _table.commit(); return 201
Write(w) ==
  /\ inflight[w].pc = "write"
  /\ LET out == create_table(store, ConcDatabase, ConcTable, inflight[w].body)
     IN /\ store' = out.store
        /\ inflight' = [inflight EXCEPT ![w] =
                          [@ EXCEPT !.pc = "done", !.code = out.response.code]]
  /\ UNCHANGED <<request, response, calls, dropped>>

NextConc == \E w \in Workers : Arrive(w) \/ Check(w) \/ Write(w)

SpecConc == Init /\ [][NextConc]_vars

\* --------------------------------------------------------------- claims
CreateOps == {"create", "create_named"}

\* The table a request names: the path segment, or create's `table` argument.
Target(req) == IF req.op = "create" THEN req.targ[1] ELSE req.table

Named(req) == req.op # "" /\ (req.op = "create" => req.targ # <<>>)

TableOf(st, req) == st[req.database][Target(req)]

Decodable(body) == body.kind # "malformed"

\* A stored row is the sent row: its fields, the identifier, and no value in
\* the columns the row was not given.
RowIs(stored, sent) ==
  /\ DOMAIN sent \cup {ID} \subseteq DOMAIN stored
  /\ \A c \in DOMAIN stored \ {ID} :
       stored[c] = IF c \in DOMAIN sent THEN sent[c] ELSE NULL

\* The rows got are the rows sent, as multisets, under distinct identifiers.
SameRows(got, sent) ==
  /\ Len(got) = Len(sent)
  /\ \A i, j \in 1..Len(got) : i # j => got[i][ID] # got[j][ID]
  /\ \E p \in Permutations(1..Len(got)) :
       \A i \in 1..Len(got) : RowIs(got[i], sent[p[i]])

\* C1: a create request, by path or by ?table=, for a table that exists
\* returns 409 with an error envelope that carries the url of the table, and
\* leaves the store as it was, whatever the body is.
C1_CreateExistingConflict ==
  [][(/\ request'.op \in CreateOps
      /\ Named(request')
      /\ TableOf(store, request').exists)
     => /\ response'.code = 409
        /\ response'.state = "error"
        /\ response'.url = url_for(request'.database, Target(request'))
        /\ store' = store]_vars

C1_Witness ==
  /\ request.op \in CreateOps
  /\ Named(request)
  /\ response.code = 409
  /\ Decodable(request.body)
  /\ NonEmpty(read_request(request.body)) # <<>>
  /\ TableOf(store, request).exists

\* C2: a create request for a table that does not exist, whose body decodes
\* to at least one row with a field, returns 201 with the table's url, and a
\* read of the table without query parameters then returns exactly the rows
\* of the body that have a field, each under an identifier of its own.
C2_CreateThenRead ==
  [][(/\ request'.op \in CreateOps
      /\ Named(request')
      /\ ~ TableOf(store, request').exists
      /\ Decodable(request'.body)
      /\ NonEmpty(read_request(request'.body)) # <<>>)
     => /\ response'.code = 201
        /\ response'.state = "success"
        /\ response'.url = url_for(request'.database, Target(request'))
        /\ LET got == read(store', request'.database, Target(request'),
                           NoParams).response
           IN /\ got.code = 200
              /\ SameRows(got.rows, NonEmpty(read_request(request'.body)))]_vars

C2_Witness ==
  /\ request.op \in CreateOps
  /\ Named(request)
  /\ response.code = 201
  /\ Len(NonEmpty(read_request(request.body))) = 2
  /\ Len(TableOf(store, request).rows) = 2
  /\ \E c \in TableOf(store, request).cols :
       TableOf(store, request).rows[1][c] = NULL

\* A stored row has the row's values on the unique columns.
Agrees(stored, unique, row) ==
  \A u \in unique : /\ u \in DOMAIN row
                    /\ u \in DOMAIN stored
                    /\ stored[u] = row[u]

\* The rows of a body that update adds: a row is added unless a stored row,
\* or a row the request added before it, has its values on the unique columns.
Added(t, unique, rows) ==
  {k \in 1..Len(rows) :
     /\ \A i \in 1..Len(t.rows) : ~ Agrees(t.rows[i], unique, rows[k])
     /\ \A j \in 1..(k - 1) : ~ Agrees(rows[j], unique, rows[k])}

\* The rows a table had are in place: same position, same identifier.
InPlace(t, tt) ==
  /\ Len(tt.rows) >= Len(t.rows)
  /\ \A i \in 1..Len(t.rows) : tt.rows[i][ID] = t.rows[i][ID]

\* A stored row is as it was: its values kept, no value in a new column.
Untouched(old, new) ==
  /\ DOMAIN old \subseteq DOMAIN new
  /\ \A c \in DOMAIN new : new[c] = IF c \in DOMAIN old THEN old[c] ELSE NULL

UpdatesExisting(req, st) ==
  /\ req.op = "update"
  /\ TableOf(st, req).exists
  /\ Decodable(req.body)

\* C3: an update request on an existing table with unique columns: a row with
\* a field whose values on the unique columns are those of an existing row
\* updates that row in place and the row count stays; a row with a field and
\* no such match is appended and the row count grows by exactly one.
C3_UpsertByUnique ==
  [][(UpdatesExisting(request', store) /\ request'.unique # {})
     => LET t == TableOf(store, request')
            tt == TableOf(store', request')
            unique == request'.unique
            rows == NonEmpty(read_request(request'.body))
            hit == {i \in 1..Len(t.rows) : Agrees(t.rows[i], unique, rows[1])}
        IN /\ InPlace(t, tt)
           /\ Len(tt.rows) = Len(t.rows) + Cardinality(Added(t, unique, rows))
           /\ (Len(rows) = 1 /\ hit # {})
                => /\ Len(tt.rows) = Len(t.rows)
                   /\ \A i \in hit : \A c \in DOMAIN rows[1] :
                        tt.rows[i][c] = rows[1][c]
                   /\ \A i \in 1..Len(t.rows) \ hit :
                        Untouched(t.rows[i], tt.rows[i])
           /\ (Len(rows) = 1 /\ hit = {})
                => /\ Len(tt.rows) = Len(t.rows) + 1
                   /\ RowIs(tt.rows[Len(tt.rows)], rows[1])
                   /\ \A i \in 1..Len(t.rows) :
                        Untouched(t.rows[i], tt.rows[i])]_vars

\* An update whose first row was appended and whose second row updated it.
C3_Witness ==
  /\ request.op = "update"
  /\ request.unique = {"a"}
  /\ response.code = 201
  /\ LET rows == read_request(request.body)
         t == TableOf(store, request)
     IN /\ Len(rows) = 2
        /\ DOMAIN rows[1] = {"a"}
        /\ DOMAIN rows[2] = {"a", "b"}
        /\ rows[1]["a"] = rows[2]["a"]
        /\ Len(t.rows) = 2
        /\ t.rows[1]["a"] # rows[1]["a"]
        /\ t.rows[2]["b"] = rows[2]["b"]

\* C4: an update request on an existing table without a unique argument
\* appends every row that has a field, modifies no existing row and
\* returns 201.
C4_UpdateAppends ==
  [][(UpdatesExisting(request', store) /\ request'.unique = {})
     => LET t == TableOf(store, request')
            tt == TableOf(store', request')
            rows == NonEmpty(read_request(request'.body))
        IN /\ response'.code = 201
           /\ Len(tt.rows) = Len(t.rows) + Len(rows)
           /\ \A i \in 1..Len(t.rows) : Untouched(t.rows[i], tt.rows[i])
           /\ \A k \in 1..Len(rows) :
                RowIs(tt.rows[Len(t.rows) + k], rows[k])]_vars

\* An update without unique that added a row equal to a stored one.
C4_Witness ==
  /\ request.op = "update"
  /\ request.unique = {}
  /\ response.code = 201
  /\ LET rows == read_request(request.body)
         t == TableOf(store, request)
     IN /\ Len(rows) = 2
        /\ DOMAIN rows[1] = {}
        /\ DOMAIN rows[2] # {}
        /\ Len(t.rows) = 2
        /\ \A c \in DOMAIN rows[2] : t.rows[1][c] = rows[2][c]

\* C5: a read request for a table that does not exist returns 404 whatever
\* its query parameters are, and executes no query.
C5_ReadMissing404 ==
  [][(request'.op = "read" /\ ~ TableOf(store, request').exists)
     => /\ response'.code = 404
        /\ response'.state = "error"
        /\ response'.message = [text |-> "No such table: ",
                                arg |-> <<request'.table>>]
        /\ calls' = {}
        /\ store' = store]_vars

\* A read of a missing table with an invalid _sort, _limit and filter.
C5_Witness ==
  /\ request.op = "read"
  /\ response.code = 404
  /\ ~ TableOf(store, request).exists
  /\ request.params.sort = <<<<"theotherway">>>>
  /\ request.params.limit = <<<<"B">>>>
  /\ DOMAIN request.params.filter = {"zz"}

\* C6: an update or delete request for a table that does not exist returns
\* 404 and leaves the store unchanged: no table created, no row inserted,
\* nothing dropped or committed.
C6_WriteMissing404 ==
  [][(request'.op \in {"update", "delete"} /\ ~ TableOf(store, request').exists)
     => /\ response'.code = 404
        /\ response'.state = "error"
        /\ store' = store
        /\ calls' = {}]_vars

C6_Witness ==
  /\ request.op = "update"
  /\ response.code = 404
  /\ Decodable(request.body)
  /\ NonEmpty(read_request(request.body)) # <<>>
  /\ ~ TableOf(store, request).exists

\* C7: a delete request on an existing table returns 410 and the table is
\* gone; until the next create for its name every read, update and delete of
\* it returns 404, and a create for the name returns 201, not 409, and leaves
\* a table that holds only the rows of that create.
C7_DeleteThenGone ==
  [][/\ (request'.op = "delete" /\ TableOf(store, request').exists)
          => /\ response'.code = 410
             /\ TableOf(store', request') = NoTable
             /\ <<request'.database, request'.table>> \in dropped'
     /\ (/\ request'.op \in {"read", "update", "delete"}
         /\ <<request'.database, request'.table>> \in dropped)
          => /\ response'.code = 404
             /\ ~ TableOf(store', request').exists
             /\ <<request'.database, request'.table>> \in dropped'
     /\ (/\ request'.op \in CreateOps
         /\ Named(request')
         /\ <<request'.database, Target(request')>> \in dropped)
          => /\ response'.code # 409
             /\ Decodable(request'.body)
                  => /\ response'.code = 201
                     /\ SameRows(TableOf(store', request').rows,
                                 NonEmpty(read_request(request'.body)))]_vars

C7_Witness ==
  /\ request.op = "delete"
  /\ response.code = 410
  /\ <<request.database, request.table>> \in dropped
  /\ ~ TableOf(store, request).exists

ReadsExisting == request.op = "read" /\ TableOf(store, request).exists

\* A value of _limit or _offset that is given and is not an integer.
NotInteger(arg) == Given(arg) /\ ValueError(arg[1])

\* A _sort value of the form asc:column or desc:column, in any case.
KnownDirection(sort) ==
  /\ HasSeparator(sort)
  /\ Len(SplitOrder(sort)) = 1
  /\ lower(SplitOrder(sort)[1]) \in {"asc", "desc"}

InvalidValue(lit) == [text |-> "Invalid value: ", arg |-> lit]

\* C8 as stated: a read request on an existing table whose _limit value is
\* not an integer returns 400 with a message that contains the value,
\* whatever the other query parameters are.
C8_AsStated ==
  (ReadsExisting /\ NotInteger(request.params.limit))
    => /\ response.code = 400
       /\ response.message = InvalidValue(request.params.limit[1])

\* C8, amended: a read request on an existing table whose _limit value is
\* not an integer executes no selection and does not return 200; it returns
\* 400 with a message that contains the value when every _sort value is
\* asc:column or desc:column and every filter names a column of the table,
\* whatever the _offset value and the sort columns are.
C8_InvalidLimit ==
  (ReadsExisting /\ NotInteger(request.params.limit))
    => /\ response.code # 200
       /\ "execute" \notin calls
       /\ (/\ \A i \in 1..Len(request.params.sort) :
                KnownDirection(request.params.sort[i])
           /\ DOMAIN request.params.filter
                \subseteq TableOf(store, request).cols \cup {ID})
            => /\ response.code = 400
               /\ response.state = "error"
               /\ response.message = InvalidValue(request.params.limit[1])

\* An invalid _limit reported although _offset is invalid too and the sort
\* column is unknown.
C8_Witness ==
  /\ ReadsExisting
  /\ request.params.limit = <<<<"B">>>>
  /\ request.params.offset = <<<<"X">>>>
  /\ request.params.sort = <<<<"asc", ":", "zz">>>>
  /\ response.code = 400
  /\ response.message = InvalidValue(<<"B">>)

\* A read request has an invalid query parameter.
InvalidParams(t, params) ==
  \/ \E i \in 1..Len(params.sort) : ~ HasSeparator(params.sort[i])
  \/ ~ (DOMAIN params.filter \subseteq t.cols \cup {ID})
  \/ NotInteger(params.limit)
  \/ NotInteger(params.offset)

\* C9: a read request on an existing table with an invalid query parameter
\* (a _sort value without ':', a filter on a column the table does not have,
\* a _limit or _offset that is not an integer) returns 400 with an error
\* envelope and executes no selection; a _sort value without ':' yields the
\* 'Invalid sorting format' message.
C9_InvalidParams400 ==
  (ReadsExisting /\ InvalidParams(TableOf(store, request), request.params))
    => /\ response.code = 400
       /\ response.state = "error"
       /\ "execute" \notin calls
       /\ (\E i \in 1..Len(request.params.sort) :
             ~ HasSeparator(request.params.sort[i]))
            => response.message.text
                 = "Invalid sorting format, use: order:column"

\* The _sort values with every unrecognised direction replaced by asc.
Ascending(sorts) ==
  [i \in 1..Len(sorts) |->
     IF HasSeparator(sorts[i]) /\ ~ KnownDirection(sorts[i])
     THEN <<"asc", ":">> \o SplitColumn(sorts[i])
     ELSE sorts[i]]

\* C10: a read request whose _sort value is direction:column with a direction
\* that is neither asc nor desc is accepted and sorts ascending by the
\* column, as direction asc does; it does not end in a server fault.
C10_UnknownDirectionAscending ==
  (/\ ReadsExisting
   /\ \A i \in 1..Len(request.params.sort) : HasSeparator(request.params.sort[i])
   /\ \E i \in 1..Len(request.params.sort) :
        ~ KnownDirection(request.params.sort[i]))
    => /\ response.code # 500
       /\ response =
            read(store, request.database, request.table,
                 [request.params EXCEPT !.sort = Ascending(@)]).response

\* C11: every execution error the engine reports, in the sql handler as in
\* the read handler, ends the request with 400 and a status envelope that
\* carries the engine's message, never with an unstructured fault.
C11_EngineErrors400 ==
  "OperationalError" \in calls
    => /\ request.op \in {"sql", "read"}
       /\ response.code = 400
       /\ response.state = "error"
       /\ response.message.text = "Invalid query: "

\* C12: an sql request whose content type is not text/sql returns 400 with an
\* error envelope; its body is not executed and the store is unchanged.
C12_OnlySqlContent ==
  [][(request'.op = "sql" /\ request'.ctype # "text/sql")
     => /\ response'.code = 400
        /\ response'.state = "error"
        /\ calls' = {}
        /\ store' = store]_vars

\* A statement that drops an existing table, refused for its content type.
C12_Witness ==
  /\ request.op = "sql"
  /\ request.ctype = "application/json"
  /\ request.statement.verb = "drop"
  /\ response.code = 400
  /\ store[request.database][request.statement.table].exists

WritesRows(req) == req.op \in CreateOps \cup {"update"} /\ Named(req)

\* C16: create and update invoke commit only after every row of the body has
\* been processed: when decoding fails part-way commit is not invoked and
\* none of the request's rows is visible to later reads.
C16_NoPartialCommit ==
  [][(WritesRows(request') /\ ~ Decodable(request'.body))
     => /\ "commit" \notin calls'
        /\ response'.code \notin {201, 200}
        /\ store' = store
        /\ read(store', request'.database, Target(request'), NoParams).response
             = read(store, request'.database, Target(request'),
                    NoParams).response]_vars

\* A create that added a row and then failed to decode the next.
C16_Witness ==
  /\ request.op = "create_named"
  /\ ~ Decodable(request.body)
  /\ NonEmpty(read_request(request.body)) # <<>>
  /\ "add_row" \in calls
  /\ response.code = 400
  /\ ~ TableOf(store, request).exists

\* The limit or offset value passed to select(): none, or an integer >= 0.
NoneOrNatural(arg) == Given(arg) => int(arg[1]) >= 0

\* C15: the read handler executes a selection only with a limit and an offset
\* that are each absent or a non-negative integer; a negative value is
\* rejected with 400 and never reaches the engine.
C15_WindowNonNegative ==
  (request.op = "read" /\ "execute" \in calls)
    => /\ NoneOrNatural(request.params.limit)
       /\ NoneOrNatural(request.params.offset)

C18_ColumnsAppendOnly ==
  [][(/\ request'.op \in CreateOps \cup {"read", "update"}
      /\ Named(request')
      /\ TableOf(store, request').exists)
     => LET t == TableOf(store, request')
            tt == TableOf(store', request')
            unique == request'.unique
            rows == NonEmpty(read_request(request'.body))
            matched(i) ==
              /\ request'.op = "update"
              /\ unique # {}
              /\ \E k \in 1..Len(rows) : Agrees(t.rows[i], unique, rows[k])
        IN /\ tt.exists
           /\ t.cols \subseteq tt.cols
           /\ InPlace(t, tt)
           /\ \A i \in 1..Len(t.rows) :
                /\ DOMAIN t.rows[i] \subseteq DOMAIN tt.rows[i]
                /\ ~ matched(i) => Untouched(t.rows[i], tt.rows[i])]_vars

\* An update with a new column: the row it matched has the value, the row it
\* did not match has none.
C18_Witness ==
  /\ request.op = "update"
  /\ request.unique = {"a"}
  /\ response.code = 201
  /\ LET rows == read_request(request.body)
         t == TableOf(store, request)
     IN /\ Len(rows) = 1
        /\ DOMAIN rows[1] = {"a", "b"}
        /\ Len(t.rows) = 2
        /\ t.cols = {"a", "b"}
        /\ t.rows[1]["a"] # rows[1]["a"]
        /\ t.rows[1]["b"] = NULL
        /\ t.rows[2]["a"] = rows[1]["a"]
        /\ t.rows[2]["b"] = rows[1]["b"]

\* C20: the read and index handlers never change the store, whether the
\* request succeeds or ends in 400 or 404, so the same request made again
\* returns the same response.
C20_GetLeavesStore ==
  [][(request'.op \in {"read", "index"})
     => /\ store' = store
        /\ dropped' = dropped
        /\ request'.op = "read"
             => read(store', request'.database, request'.table,
                     request'.params).response = response'
        /\ request'.op = "index"
             => index(store', request'.database).response = response']_vars

\* A read of a missing table answered with 404: still no table.
C20_Witness ==
  /\ request.op = "read"
  /\ response.code = 404
  /\ request.params = NoParams
  /\ store = EmptyStore

\* The read a request makes with other parameters, on the store as it is.
ReadWith(params) ==
  read(store, request.database, request.table, params).response

\* The number a window argument stands for when it is given.
WindowValue(arg, none) == IF Given(arg) THEN int(arg[1]) ELSE none

\* C13: a read with _limit=L and _offset=O and no _sort returns the rows at
\* positions O+1 .. O+L (fewer if the table ends) of what the same read
\* returns without _limit and _offset, in insertion order; on the fixture
\* L=2 and O=2 give rows 3 and 4.
C13_LimitOffsetWindow ==
  (/\ request.op = "read"
   /\ request.params.sort = <<>>
   /\ NoneOrNatural(request.params.limit)
   /\ NoneOrNatural(request.params.offset))
  => LET p == request.params
         all == ReadWith([p EXCEPT !.limit = <<>>, !.offset = <<>>]).rows
         O == WindowValue(p.offset, 0)
         L == WindowValue(p.limit, Len(all))
         last == IF O + L < Len(all) THEN O + L ELSE Len(all)
         got == response.rows
     IN /\ response.code = 200
        /\ got = SubSeq(all, O + 1, last)
        /\ \A i, j \in 1..Len(got) : i < j => got[i][ID] < got[j][ID]
        /\ (p = [NoParams EXCEPT !.limit = <<<<"2">>>>, !.offset = <<<<"2">>>>])
             => /\ Len(got) = 2
                /\ RowIs(got[1], CSV_FIXTURE[3]) /\ got[1][ID] = 3
                /\ RowIs(got[2], CSV_FIXTURE[4]) /\ got[2][ID] = 4

\* test_read_json_representation_with_limit_and_offset.
C13_Witness ==
  /\ request.op = "read"
  /\ request.params = [NoParams EXCEPT !.limit = <<<<"2">>>>,
                                       !.offset = <<<<"2">>>>]
  /\ Len(response.rows) = 2
  /\ response.rows[1].place = "Galway"
  /\ response.rows[2].place = "Berkeley"

\* The one column of a read whose only _sort value is desc:column.
SortsDescending(params) ==
  /\ Len(params.sort) = 1
  /\ HasSeparator(params.sort[1])
  /\ Len(SplitOrder(params.sort[1])) = 1
  /\ lower(SplitOrder(params.sort[1])[1]) = "desc"
  /\ Len(SplitColumn(params.sort[1])) = 1

\* The rows of one sequence are the rows of the other.
Permuted(got, rows) ==
  /\ Len(got) = Len(rows)
  /\ {got[i] : i \in 1..Len(got)} = {rows[i] : i \in 1..Len(rows)}

\* C14 as stated: every read with _sort=desc:col returns all rows that the
\* read without _sort returns.
C14_AsStated ==
  (request.op = "read" /\ SortsDescending(request.params))
    => Permuted(response.rows,
                ReadWith([request.params EXCEPT !.sort = <<>>]).rows)

\* C14: a read whose only _sort value is desc:col, without _limit and
\* _offset, returns the rows of the unsorted read with the col values
\* non-increasing; its first row is a stored row with the maximum col value,
\* all fields intact.  With _limit and _offset the result is that window of
\* the ordered rows.
C14_SortDescending ==
  (request.op = "read" /\ SortsDescending(request.params))
    => LET p == request.params
           col == SplitColumn(p.sort[1])[1]
           plain == ReadWith([p EXCEPT !.sort = <<>>, !.limit = <<>>,
                                       !.offset = <<>>]).rows
           sorted == ReadWith([p EXCEPT !.limit = <<>>, !.offset = <<>>]).rows
           stored == store[request.database][request.table].rows
           O == WindowValue(p.offset, 0)
           L == WindowValue(p.limit, Len(sorted))
           last == IF O + L < Len(sorted) THEN O + L ELSE Len(sorted)
       IN /\ response.code = 200
          /\ Permuted(sorted, plain)
          /\ \A i \in 1..(Len(sorted) - 1) : sorted[i][col] >= sorted[i + 1][col]
          /\ sorted # <<>>
               => /\ \A i \in 1..Len(plain) : sorted[1][col] >= plain[i][col]
                  /\ sorted[1] = stored[sorted[1][ID]]
          /\ response.rows = SubSeq(sorted, O + 1, last)

\* test_read_json_representation_sort: the first row is Berkeley's 8.
C14_Witness ==
  /\ request.op = "read"
  /\ request.params = [NoParams EXCEPT
                         !.sort = <<<<"desc", ":", "temperature">>>>]
  /\ Len(response.rows) = 6
  /\ response.rows[1].temperature = 8
  /\ response.rows[1].place = "Berkeley"
  /\ response.rows[6].temperature = 0 - 1

\* C19: when two concurrent create requests for one table name have both
\* been answered, one returned 201 and the other 409, and the table holds
\* the rows of one request only.
C19_OneCreateWins ==
  (\A w \in Workers : inflight[w].pc = "done")
    => \E w \in Workers :
         /\ inflight[w].code = 201
         /\ \A v \in Workers \ {w} : inflight[v].code = 409
         /\ SameRows(store[ConcDatabase][ConcTable].rows,
                     NonEmpty(read_request(inflight[w].body)))

====
